---------------------------- MODULE Spec2Model ----------------------------
(***************************************************************************)
(* Model of the stock-market-simulator core: the Date value type           *)
(* (include/date.hpp, src/date.cpp) and the PresentValue<T> cash-flow      *)
(* functions (include/present_value.hpp), and the Dated<T> time series     *)
(* (include/dated.hpp).                                                    *)
(***************************************************************************)
EXTENDS Integers, Sequences, FiniteSets, TLC

VARIABLES d, prev, prev2, op, pop, res,
          lhs, rhs, cmpOp, cmpRes,
          times, amounts, fn, pc, x1, x2, f1, f2, it, rtb, dx, x_mid, f_mid,
          outcome, what, expansions, pvCalls, uniq,
          dates, elements, member, arg, thrown, thrownWhat, ret

dateVars == <<d, prev, prev2, op, pop, res>>
cmpVars  == <<lhs, rhs, cmpOp, cmpRes>>
pvVars   == <<times, amounts, fn, pc, x1, x2, f1, f2, it, rtb, dx, x_mid,
             f_mid, outcome, what, expansions, pvCalls, uniq>>
tsVars   == <<dates, elements, member, arg, thrown, thrownWhat, ret>>
vars     == <<d, prev, prev2, op, pop, res, lhs, rhs, cmpOp, cmpRes,
             times, amounts, fn, pc, x1, x2, f1, f2, it, rtb, dx, x_mid,
             f_mid, outcome, what, expansions, pvCalls, uniq,
             dates, elements, member, arg, thrown, thrownWhat, ret>>

(***************************************************************************)
(* Bounds of the model.                                                    *)
(***************************************************************************)
DayMargin    == 1
MonthMargin  == 1
YearMargin   == 1
MaxYearIn    == 5
MaxLeapYear  == 2024
MaxCmpDay    == 3
MaxCmpMonth  == 3
MaxCmpYears  == 1
MaxUniqueLen == 4
MaxIrrLen    == 3
MaxSeriesLen == 3
IndexMargin  == 1

\* The amounts of the streams given to unique_discrete_irr.
UniqueAmounts == {-100, -10, 0, 50, 150}

\* The amounts of the streams given to irr_discrete_cflow.
IrrAmounts == {-100, 10, 110}

(***************************************************************************)
(* date.hpp: constants, the month enumeration and the month-length table.  *)
(***************************************************************************)
MinDay   == 1
MaxDay   == 31
MinMonth == 1
MaxMonth == 12
MinYear  == 0

\* enum Months { padding, January, February, March, April, May, June,
\*               August, September, October, November, December }
\* The enumerators are numbered consecutively from 0 in declaration order.
January   == 1
February  == 2
March     == 3
April     == 4
May       == 5
June      == 6
August    == 7
September == 8
October   == 9
November  == 10
December  == 11

\* const int MonthLength[13]; the C array is indexed from 0.
MonthLengthTable == <<31, 31, 28, 31, 30, 31, 30, 31, 31, 30, 31, 30, 31>>
MonthLength(i) == MonthLengthTable[i + 1]

MkDate(dd, mm, yy) == [day |-> dd, month |-> mm, year |-> yy]

(***************************************************************************)
(* date.cpp: Date::is_leap_year and Date::valid.                           *)
(***************************************************************************)
is_leap_year(dt) ==
    IF dt.year % 4 # 0 THEN FALSE
    ELSE IF dt.year % 100 = 0 THEN TRUE
    ELSE IF dt.year % 400 # 0 THEN FALSE
    ELSE TRUE

valid(dt) ==
    IF dt.year < MinYear THEN FALSE
    ELSE IF dt.month > MaxMonth \/ dt.month < MinMonth THEN FALSE
    ELSE IF dt.day > MaxDay \/ dt.day < MinDay THEN FALSE
    ELSE IF dt.day = MaxDay /\ (dt.month = February  \/
                                dt.month = April     \/
                                dt.month = June      \/
                                dt.month = September \/
                                dt.month = November) THEN FALSE
    ELSE IF dt.day = 30 /\ dt.month = February THEN FALSE
    ELSE IF (dt.day = 29 /\ dt.month = February) /\ ~is_leap_year(dt) THEN FALSE
    ELSE TRUE

(***************************************************************************)
(* date.cpp: Date::operator++ and Date::operator--.                        *)
(***************************************************************************)
\* The same without the carry into the year.
IncrementNoYear(dt) ==
    LET day1 == dt.day + 1 IN
    IF day1 > MaxDay
    THEN LET month1 == dt.month + 1 IN
         IF month1 > MaxMonth
         THEN MkDate(MinDay, MinMonth, dt.year)
         ELSE MkDate(MinDay, month1, dt.year)
    ELSE MkDate(day1, dt.month, dt.year)

Increment(dt) ==
    LET day1 == dt.day + 1 IN
    IF day1 > MaxDay
    THEN LET month1 == dt.month + 1 IN
         IF month1 > MaxMonth
         THEN MkDate(MinDay, MinMonth, dt.year + 1)
         ELSE MkDate(MinDay, month1, dt.year)
    ELSE MkDate(day1, dt.month, dt.year)

\* The values a read outside MonthLength[0..12] may produce.
WildDays == (MinDay - DayMargin) .. (MaxDay + DayMargin)

\* day = MonthLength[month-1]: the set of values the read can yield.
MonthLengthRead(i) ==
    IF i >= 0 /\ i <= 12 THEN {MonthLength(i)} ELSE WildDays

DecrementNoLeap(dt) ==
    LET day1 == dt.day - 1 IN
    IF day1 < MinDay
    THEN { LET month1 == dt.month - 1 IN
           IF month1 < MinMonth
           THEN MkDate(len, MaxMonth, dt.year - 1)
           ELSE MkDate(len, month1, dt.year)
           : len \in MonthLengthRead(dt.month - 1) }
    ELSE { MkDate(day1, dt.month, dt.year) }

\* The set of dates operator-- can leave in the object (one value unless the
\* table is read out of range).
Decrement(dt) ==
    LET day1 == dt.day - 1 IN
    IF day1 < MinDay
    THEN { LET day2   == IF dt.month - 1 = February /\ is_leap_year(dt)
                         THEN len + 1 ELSE len
               month1 == dt.month - 1
           IN  IF month1 < MinMonth
               THEN MkDate(day2, MaxMonth, dt.year - 1)
               ELSE MkDate(day2, month1, dt.year)
           : len \in MonthLengthRead(dt.month - 1) }
    ELSE { MkDate(day1, dt.month, dt.year) }

(***************************************************************************)
(* date.cpp: the comparison operators.                                     *)
(***************************************************************************)
OpEq(a, b) ==
    IF a.day = b.day /\ a.month = b.month /\ a.year = b.year
    THEN TRUE ELSE FALSE

OpNe(a, b) == ~OpEq(a, b)

OpLtDayOnly(a, b) ==
    a.year < b.year \/ a.month < b.month \/ a.day < b.day

OpLt(a, b) ==
    IF \/ a.year < b.year
       \/ (a.year = b.year /\ a.month < b.month)
       \/ (a.year = b.year /\ a.month = b.month /\ a.day < b.day)
    THEN TRUE ELSE FALSE

OpGt(a, b) ==
    IF \/ a.year > b.year
       \/ (a.year = b.year /\ a.month > b.month)
       \/ (a.year = b.year /\ a.month = b.month /\ a.day > b.day)
    THEN TRUE ELSE FALSE

OpLe(a, b) == ~OpGt(a, b)

OpGe(a, b) == ~OpLt(a, b)

(***************************************************************************)
(* Arithmetic of the value type T of PresentValue<T>.  T is taken as the   *)
(* exact numbers it approximates: an integer of any size is a sign sg and  *)
(* a magnitude mag, the sequence of its base-1000 digits, lowest first; a  *)
(* rate is a decimal m / 10^s; a present value is a quotient n / dn.       *)
(***************************************************************************)
Max(a, b) == IF a >= b THEN a ELSE b
Abs(n)    == IF n < 0 THEN -n ELSE n
Sgn(n)    == IF n < 0 THEN -1 ELSE IF n > 0 THEN 1 ELSE 0

Limb(a, k) == IF k >= 1 /\ k <= Len(a) THEN a[k] ELSE 0

\* The digits of a small number c >= 0.
RECURSIVE Limbs(_)
Limbs(c) == IF c = 0 THEN <<>> ELSE <<c % 1000>> \o Limbs(c \div 1000)

\* Carry propagation through columns lo..hi with carry cin coming in:
\* the digits and the carry going out.
RECURSIVE Norm(_, _, _, _)
Norm(cols, lo, hi, cin) ==
    IF lo > hi THEN << <<>>, cin >>
    ELSE IF lo = hi
    THEN LET v == cols[lo] + cin IN << <<v % 1000>>, v \div 1000 >>
    ELSE LET mid  == (lo + hi) \div 2
             low  == Norm(cols, lo, mid, cin)
             high == Norm(cols, mid + 1, hi, low[2])
         IN  << low[1] \o high[1], high[2] >>

Carry(cols) ==
    LET r == Norm(cols, 1, Len(cols), 0) IN r[1] \o Limbs(r[2])

\* The highest k in lo..hi where a and b differ, 0 if there is none.
RECURSIVE Top(_, _, _, _)
Top(a, b, lo, hi) ==
    IF lo > hi THEN 0
    ELSE IF lo = hi THEN (IF Limb(a, lo) # Limb(b, lo) THEN lo ELSE 0)
    ELSE LET mid == (lo + hi) \div 2
             h   == Top(a, b, mid + 1, hi)
         IN  IF h # 0 THEN h ELSE Top(a, b, lo, mid)

Strip(a) == SubSeq(a, 1, Top(a, <<>>, 1, Len(a)))

MagAdd(a, b) ==
    Carry([k \in 1 .. Max(Len(a), Len(b)) |-> Limb(a, k) + Limb(b, k)])

\* a - b for a >= b
MagSub(a, b) ==
    Strip(Carry([k \in 1 .. Max(Len(a), Len(b)) |-> Limb(a, k) - Limb(b, k)]))

MagCmp(a, b) ==
    LET k == Top(a, b, 1, Max(Len(a), Len(b)))
    IN  IF k = 0 THEN 0 ELSE IF Limb(a, k) < Limb(b, k) THEN -1 ELSE 1

\* sum of a[i] * b[k+1-i] for i in lo..hi
RECURSIVE ColSum(_, _, _, _, _)
ColSum(a, b, k, lo, hi) ==
    IF lo > hi THEN 0
    ELSE IF lo = hi THEN a[lo] * Limb(b, k + 1 - lo)
    ELSE LET mid == (lo + hi) \div 2
         IN  ColSum(a, b, k, lo, mid) + ColSum(a, b, k, mid + 1, hi)

MagMul(a, b) ==
    IF a = <<>> \/ b = <<>> THEN <<>>
    ELSE Strip(Carry([k \in 1 .. (Len(a) + Len(b) - 1) |->
                         ColSum(a, b, k, Max(1, k + 1 - Len(b)),
                                IF k < Len(a) THEN k ELSE Len(a))]))

BigOf(n)   == [sg |-> Sgn(n), mag |-> Limbs(Abs(n))]
BigZero    == BigOf(0)
BigNeg(x)  == [sg |-> 0 - x.sg, mag |-> x.mag]
BigAbs(x)  == [sg |-> Abs(x.sg), mag |-> x.mag]

BigAdd(x, y) ==
    IF x.sg = 0 THEN y
    ELSE IF y.sg = 0 THEN x
    ELSE IF x.sg = y.sg THEN [sg |-> x.sg, mag |-> MagAdd(x.mag, y.mag)]
    ELSE LET c == MagCmp(x.mag, y.mag)
         IN  IF c = 0 THEN BigZero
             ELSE IF c > 0 THEN [sg |-> x.sg, mag |-> MagSub(x.mag, y.mag)]
             ELSE [sg |-> y.sg, mag |-> MagSub(y.mag, x.mag)]

BigSub(x, y) == BigAdd(x, BigNeg(y))

BigMul(x, y) ==
    IF x.sg = 0 \/ y.sg = 0 THEN BigZero
    ELSE [sg |-> x.sg * y.sg, mag |-> MagMul(x.mag, y.mag)]

\* x < y
BigLess(x, y) == BigSub(x, y).sg < 0

RECURSIVE BigPow(_, _)
BigPow(x, n) == IF n = 0 THEN BigOf(1) ELSE BigMul(x, BigPow(x, n - 1))

\* 10^n: 1, 10 or 100 above n \div 3 zero digits
Pow10(n) ==
    [sg  |-> 1,
     mag |-> [k \in 1 .. (n \div 3) + 1 |->
                 IF k <= n \div 3 THEN 0
                 ELSE IF n % 3 = 0 THEN 1 ELSE IF n % 3 = 1 THEN 10 ELSE 100]]

\* The decimal m / 10^s.
Dec(m, s)  == [m |-> BigOf(m), s |-> s]
Scaled(x, s) == BigMul(x.m, Pow10(s - x.s))
DecAdd(x, y) ==
    LET s == Max(x.s, y.s) IN [m |-> BigAdd(Scaled(x, s), Scaled(y, s)), s |-> s]
DecSub(x, y) ==
    LET s == Max(x.s, y.s) IN [m |-> BigSub(Scaled(x, s), Scaled(y, s)), s |-> s]
\* x * (k / 10)
DecTenths(x, k) == [m |-> BigMul(x.m, BigOf(k)), s |-> x.s + 1]
DecLess(x, y) == DecSub(x, y).m.sg < 0
DecSame(x, y) == DecSub(x, y).m.sg = 0
DecAbs(x) == [m |-> BigAbs(x.m), s |-> x.s]

\* The quotient n / dn, dn # 0.
Quot(n, dn) == [n |-> n, dn |-> dn]
QuotZero    == Quot(BigZero, BigOf(1))
QuotSign(f) == f.n.sg * f.dn.sg
QuotAdd(f, g) ==
    Quot(BigAdd(BigMul(f.n, g.dn), BigMul(g.n, f.dn)), BigMul(f.dn, g.dn))
\* fabs(f) < fabs(g)
QuotAbsLess(f, g) ==
    BigLess(BigMul(BigAbs(f.n), BigAbs(g.dn)), BigMul(BigAbs(g.n), BigAbs(f.dn)))
\* fabs(f) < x for a decimal x >= 0
QuotAbsLessDec(f, x) ==
    BigLess(BigMul(BigAbs(f.n), Pow10(x.s)), BigMul(x.m, BigAbs(f.dn)))

(***************************************************************************)
(* present_value.hpp: PresentValue<T>.  Cash-flow times are whole numbers  *)
(* of periods; amounts are integers of any size.                           *)
(***************************************************************************)
ACCURACY == Dec(1, 5)
MAX_ITERATIONS == 50

DiscountedCompounding(amount, time, r) ==
    Quot(BigMul(amount, BigPow(BigAdd(Pow10(r.s), r.m), time)),
         BigPow(Pow10(r.s), time))

\* amounts[t] / pow(1.0 + r, times[t]) for r = m / 10^s:
\* 1 + r = (10^s + m) / 10^s.
Discounted(amount, time, r) ==
    Quot(BigMul(amount, BigPow(Pow10(r.s), time)),
         BigPow(BigAdd(Pow10(r.s), r.m), time))

RECURSIVE PvLoop(_, _, _, _, _)
PvLoop(cflow_times, cflow_amounts, r, t, present_value) ==
    IF t < Len(cflow_times)
    THEN PvLoop(cflow_times, cflow_amounts, r, t + 1,
                QuotAdd(present_value,
                        Discounted(cflow_amounts[t + 1], cflow_times[t + 1], r)))
    ELSE present_value

pv_discrete_cflow(cflow_times, cflow_amounts, r) ==
    PvLoop(cflow_times, cflow_amounts, r, 0, QuotZero)

\* std::signbit on a number that is neither -0.0 nor NaN.
signbit(x) == x.sg < 0

RECURSIVE RawSignChanges(_, _, _, _)
RawSignChanges(cflow_times, cflow_amounts, t, sign_changes) ==
    IF t < Len(cflow_times)
    THEN RawSignChanges(cflow_times, cflow_amounts, t + 1,
             IF signbit(cflow_amounts[t]) # signbit(cflow_amounts[t + 1])
             THEN sign_changes + 1 ELSE sign_changes)
    ELSE sign_changes

\* The second loop: A keeps the first amount, B is the running total.
RECURSIVE AggSignChanges(_, _, _, _, _, _)
AggSignChanges(cflow_times, cflow_amounts, t, A, B, sign_changes) ==
    IF t < Len(cflow_times)
    THEN LET B1 == BigAdd(B, cflow_amounts[t + 1])
         IN  AggSignChanges(cflow_times, cflow_amounts, t + 1, A, B1,
                 IF signbit(A) # signbit(B1)
                 THEN sign_changes + 1 ELSE sign_changes)
    ELSE sign_changes

unique_discrete_irr(cflow_times, cflow_amounts) ==
    LET sign_changes == RawSignChanges(cflow_times, cflow_amounts, 1, 0)
    IN  IF sign_changes = 0 THEN FALSE
        ELSE IF sign_changes = 1 THEN TRUE
        ELSE AggSignChanges(cflow_times, cflow_amounts, 1,
                            cflow_amounts[1], cflow_amounts[1], 0) <= 1

\* A stream of amounts from a tuple of integers; m * 10^e.
RECURSIVE Cash(_)
Cash(ints) == IF ints = <<>> THEN <<>>
              ELSE <<BigOf(Head(ints))>> \o Cash(Tail(ints))
Sci(m, e) == BigMul(BigOf(m), Pow10(e))

(***************************************************************************)
(* A call of a PresentValue member function on (times, amounts).  fn is    *)
(* the function called, pc the position inside irr_discrete_cflow, it the  *)
(* loop variable i; expansions and pvCalls count the bracket expansions    *)
(* and the evaluations of pv_discrete_cflow made so far.                   *)
(***************************************************************************)
PvIdle ==
    /\ fn = "none" /\ pc = "call"
    /\ x1 = Dec(0, 0) /\ x2 = Dec(0, 0) /\ f1 = QuotZero /\ f2 = QuotZero
    /\ it = 0 /\ rtb = Dec(0, 0) /\ dx = Dec(0, 0)
    /\ x_mid = Dec(0, 0) /\ f_mid = QuotZero
    /\ outcome = "none" /\ what = "" /\ expansions = 0 /\ pvCalls = 0
    /\ uniq = FALSE

NoStream == times = <<>> /\ amounts = <<>>

Throw(kind, message) ==
    /\ pc' = "done" /\ outcome' = kind /\ what' = message

UniqueDiscreteIrr ==
    /\ pc = "call" /\ fn = "none"
    /\ Len(times) = Len(amounts)
    /\ fn' = "unique_discrete_irr"
    /\ uniq' = unique_discrete_irr(times, amounts)
    /\ pc' = "done" /\ outcome' = "value"
    /\ UNCHANGED <<times, amounts, x1, x2, f1, f2, it, rtb, dx, x_mid, f_mid,
                   what, expansions, pvCalls>>
    /\ UNCHANGED dateVars /\ UNCHANGED cmpVars /\ UNCHANGED tsVars

IrrCallNoCheck ==
    /\ pc = "call" /\ fn = "none"
    /\ fn' = "irr_discrete_cflow"
    /\ IF Len(times) > Len(amounts)
       THEN Throw("InvalidArgument", "sizes differ")
       ELSE pc' = "init" /\ UNCHANGED <<outcome, what>>
    /\ UNCHANGED <<times, amounts, x1, x2, f1, f2, it, rtb, dx, x_mid, f_mid,
                   expansions, pvCalls, uniq>>
    /\ UNCHANGED dateVars /\ UNCHANGED cmpVars /\ UNCHANGED tsVars

\* lines 140-141: the size check
IrrCall ==
    /\ pc = "call" /\ fn = "none"
    /\ fn' = "irr_discrete_cflow"
    /\ IF Len(times) # Len(amounts)
       THEN Throw("InvalidArgument", "sizes differ")
       ELSE pc' = "init" /\ UNCHANGED <<outcome, what>>
    /\ UNCHANGED <<times, amounts, x1, x2, f1, f2, it, rtb, dx, x_mid, f_mid,
                   expansions, pvCalls, uniq>>
    /\ UNCHANGED dateVars /\ UNCHANGED cmpVars /\ UNCHANGED tsVars

\* lines 143-149: the first bracket and its two present values
IrrBracketInit ==
    /\ pc = "init"
    /\ x1' = Dec(0, 0)
    /\ x2' = Dec(2, 1)
    /\ f1' = pv_discrete_cflow(times, amounts, x1')
    /\ f2' = pv_discrete_cflow(times, amounts, x2')
    /\ it' = 0
    /\ pvCalls' = pvCalls + 2
    /\ pc' = "bracket"
    /\ UNCHANGED <<times, amounts, fn, rtb, dx, x_mid, f_mid, outcome, what,
                   expansions, uniq>>
    /\ UNCHANGED dateVars /\ UNCHANGED cmpVars /\ UNCHANGED tsVars

\* (f1*f2) >= 0.0
SameSign(f, g) == QuotSign(f) * QuotSign(g) >= 0

\* lines 150-155: one pass of the bracket-search loop
IrrBracketStep ==
    /\ pc = "bracket"
    /\ it < MAX_ITERATIONS /\ SameSign(f1, f2)
    /\ IF QuotAbsLess(f1, f2)
       THEN /\ x1' = DecAdd(x1, DecTenths(DecSub(x1, x2), 16))
            /\ f1' = pv_discrete_cflow(times, amounts, x1')
            /\ UNCHANGED <<x2, f2>>
       ELSE /\ x2' = DecAdd(x2, DecTenths(DecSub(x2, x1), 16))
            /\ f2' = pv_discrete_cflow(times, amounts, x2')
            /\ UNCHANGED <<x1, f1>>
    /\ it' = it + 1
    /\ expansions' = expansions + 1
    /\ pvCalls' = pvCalls + 1
    /\ UNCHANGED <<times, amounts, fn, pc, rtb, dx, x_mid, f_mid, outcome,
                   what, uniq>>
    /\ UNCHANGED dateVars /\ UNCHANGED cmpVars /\ UNCHANGED tsVars

\* lines 156-168: leaving the loop, the throw and the start of the bisection
IrrBracketDone ==
    /\ pc = "bracket"
    /\ ~(it < MAX_ITERATIONS /\ SameSign(f1, f2))
    /\ IF QuotSign(f1) * QuotSign(f2) > 0
       THEN /\ Throw("DomainError", "f1 & f2 are wrong")
            /\ UNCHANGED <<rtb, dx, it, pvCalls>>
       ELSE /\ LET f == pv_discrete_cflow(times, amounts, x1)
               IN  IF QuotSign(f) < 0
                   THEN rtb' = x1 /\ dx' = DecSub(x2, x1)
                   ELSE rtb' = x2 /\ dx' = DecSub(x1, x2)
            /\ it' = 0
            /\ pvCalls' = pvCalls + 1
            /\ pc' = "bisect"
            /\ UNCHANGED <<outcome, what>>
    /\ UNCHANGED <<times, amounts, fn, x1, x2, f1, f2, x_mid, f_mid,
                   expansions, uniq>>
    /\ UNCHANGED dateVars /\ UNCHANGED cmpVars /\ UNCHANGED tsVars

\* One pass of the bisection loop returning only when both tests pass.
IrrBisectStepBoth ==
    /\ pc = "bisect"
    /\ it < MAX_ITERATIONS
    /\ dx' = DecTenths(dx, 5)
    /\ x_mid' = DecAdd(rtb, dx')
    /\ f_mid' = pv_discrete_cflow(times, amounts, x_mid')
    /\ rtb' = IF QuotSign(f_mid') <= 0 THEN x_mid' ELSE rtb
    /\ pvCalls' = pvCalls + 1
    /\ IF QuotAbsLessDec(f_mid', ACCURACY) /\ DecLess(DecAbs(dx'), ACCURACY)
       THEN pc' = "done" /\ outcome' = "value" /\ UNCHANGED <<it, what>>
       ELSE it' = it + 1 /\ UNCHANGED <<pc, outcome, what>>
    /\ UNCHANGED <<times, amounts, fn, x1, x2, f1, f2, expansions, uniq>>
    /\ UNCHANGED dateVars /\ UNCHANGED cmpVars /\ UNCHANGED tsVars

\* lines 169-177: one pass of the bisection loop
IrrBisectStep ==
    /\ pc = "bisect"
    /\ it < MAX_ITERATIONS
    /\ dx' = DecTenths(dx, 5)
    /\ x_mid' = DecAdd(rtb, dx')
    /\ f_mid' = pv_discrete_cflow(times, amounts, x_mid')
    /\ rtb' = IF QuotSign(f_mid') <= 0 THEN x_mid' ELSE rtb
    /\ pvCalls' = pvCalls + 1
    /\ IF QuotAbsLessDec(f_mid', ACCURACY) \/ DecLess(DecAbs(dx'), ACCURACY)
       THEN pc' = "done" /\ outcome' = "value" /\ UNCHANGED <<it, what>>
       ELSE it' = it + 1 /\ UNCHANGED <<pc, outcome, what>>
    /\ UNCHANGED <<times, amounts, fn, x1, x2, f1, f2, expansions, uniq>>
    /\ UNCHANGED dateVars /\ UNCHANGED cmpVars /\ UNCHANGED tsVars

\* line 178
IrrBisectFail ==
    /\ pc = "bisect"
    /\ ~(it < MAX_ITERATIONS)
    /\ Throw("DomainError", "Solution not found")
    /\ UNCHANGED <<times, amounts, fn, x1, x2, f1, f2, it, rtb, dx, x_mid,
                   f_mid, expansions, pvCalls, uniq>>
    /\ UNCHANGED dateVars /\ UNCHANGED cmpVars /\ UNCHANGED tsVars

(***************************************************************************)
(* The Date object under test.  d is the object; op is the last member     *)
(* function called on it and prev the value it had before that call; pop   *)
(* and prev2 are the same for the call before; res is the value returned   *)
(* by the last bool query.                                                 *)
(***************************************************************************)
DayInputs   == (MinDay - DayMargin) .. (MaxDay + DayMargin)
MonthInputs == (MinMonth - MonthMargin) .. (MaxMonth + MonthMargin)
YearInputs  == (MinYear - YearMargin) .. MaxYearIn
DateInputs  == { MkDate(dd, mm, yy) :
                   dd \in DayInputs, mm \in MonthInputs, yy \in YearInputs }

CmpDates == { MkDate(dd, mm, yy) : dd \in 1 .. MaxCmpDay,
                                   mm \in 1 .. MaxCmpMonth,
                                   yy \in 2020 .. (2020 + MaxCmpYears) }

DateIdle == /\ d = MkDate(0, 0, 0) /\ prev = d /\ prev2 = d
            /\ op = "ctor" /\ pop = "none" /\ res = FALSE

CmpIdle == /\ lhs = MkDate(0, 0, 0) /\ rhs = MkDate(0, 0, 0)
           /\ cmpOp = "none" /\ cmpRes = FALSE

\* Dated<T>::Dated(): both vectors are empty; no member function called yet.
SeriesIdle == /\ dates = <<>> /\ elements = <<>>
              /\ member = "none" /\ arg = 0
              /\ thrown = "none" /\ thrownWhat = "" /\ ret = 0

\* Date::Date() and Date::Date(d, m, y): any three ints are accepted.
Construct ==
    /\ d \in DateInputs \cup {MkDate(0, 0, 0)}
    /\ prev = d /\ prev2 = d
    /\ op = "ctor" /\ pop = "none" /\ res = FALSE

Called(name, after, result) ==
    /\ d' = after
    /\ prev' = d /\ prev2' = prev
    /\ op' = name /\ pop' = op
    /\ res' = result
    /\ UNCHANGED cmpVars
    /\ UNCHANGED pvVars
    /\ UNCHANGED tsVars

Valid == Called("valid", d, valid(d))

IsLeapYear == Called("is_leap_year", d, is_leap_year(d))

PreIncrement ==
    /\ d.year <= MaxYearIn
    /\ Called("pre++", Increment(d), res)

PostIncrement ==
    /\ d.year <= MaxYearIn
    /\ Called("post++", Increment(d), res)

PreDecrement ==
    /\ d.year >= MinYear - YearMargin
    /\ \E r \in Decrement(d) : Called("pre--", r, res)

PostDecrement ==
    /\ d.year >= MinYear - YearMargin
    /\ \E r \in Decrement(d) : Called("post--", r, res)

Init == Construct /\ CmpIdle /\ PvIdle /\ NoStream /\ SeriesIdle

Next == \/ Valid
        \/ IsLeapYear
        \/ PreIncrement
        \/ PostIncrement
        \/ PreDecrement
        \/ PostDecrement

Spec == Init /\ [][Next]_vars

(***************************************************************************)
(* is_leap_year over a long run of years.                                  *)
(***************************************************************************)
InitLeap ==
    /\ d \in { MkDate(1, 1, yy) : yy \in (MinYear - YearMargin) .. MaxLeapYear }
    /\ prev = d /\ prev2 = d
    /\ op = "ctor" /\ pop = "none" /\ res = FALSE
    /\ CmpIdle /\ PvIdle /\ NoStream /\ SeriesIdle

NextLeap == IsLeapYear

SpecLeap == InitLeap /\ [][NextLeap]_vars

(***************************************************************************)
(* The comparison operators applied to a pair of Dates.                    *)
(***************************************************************************)
InitCmp ==
    /\ DateIdle
    /\ lhs \in CmpDates /\ rhs \in CmpDates
    /\ cmpOp = "none" /\ cmpRes = FALSE
    /\ PvIdle /\ NoStream /\ SeriesIdle

Compared(name, result) ==
    /\ cmpOp' = name
    /\ cmpRes' = result
    /\ UNCHANGED <<lhs, rhs>>
    /\ UNCHANGED dateVars
    /\ UNCHANGED pvVars
    /\ UNCHANGED tsVars

CmpEq == Compared("==", OpEq(lhs, rhs))
CmpNe == Compared("!=", OpNe(lhs, rhs))
CmpLt == Compared("<",  OpLt(lhs, rhs))
CmpGt == Compared(">",  OpGt(lhs, rhs))
CmpLe == Compared("<=", OpLe(lhs, rhs))
CmpGe == Compared(">=", OpGe(lhs, rhs))

NextCmp == CmpEq \/ CmpNe \/ CmpLt \/ CmpGt \/ CmpLe \/ CmpGe

SpecCmp == InitCmp /\ [][NextCmp]_vars

(***************************************************************************)
(* unique_discrete_irr on every equal-length stream of small amounts.      *)
(***************************************************************************)
RECURSIVE Tuples(_, _)
Tuples(S, n) ==
    IF n = 0 THEN {<<>>}
    ELSE {Append(q, x) : q \in Tuples(S, n - 1), x \in S}

Periods(n) == [t \in 1 .. n |-> t - 1]

UniqueStreams ==
    UNION { {<<Periods(n), Cash(q)>> : q \in Tuples(UniqueAmounts, n)} :
            n \in 0 .. MaxUniqueLen }

InitUnique ==
    /\ DateIdle /\ CmpIdle /\ PvIdle /\ SeriesIdle
    /\ \E st \in UniqueStreams : times = st[1] /\ amounts = st[2]

NextUnique == UniqueDiscreteIrr

SpecUnique == InitUnique /\ [][NextUnique]_vars

(***************************************************************************)
(* irr_discrete_cflow, one step of its code at a time.                     *)
(***************************************************************************)
\* Every stream of at most MaxIrrLen amounts paid at times 0, 1, 2, ...; streams
\* paid at other times; a stream whose rate of return is near 2*10^10; and
\* pairs of sequences of different lengths.
IrrStreams ==
    UNION { {<<Periods(n), Cash(q)>> : q \in Tuples(IrrAmounts, n)} :
            n \in 0 .. MaxIrrLen }
      \cup {<<<<0, 1>>, Cash(<<0, 0>>)>>,
            <<<<0, 1, 2>>, Cash(<<-100, 0, 110>>)>>,
            <<<<0, 0>>, Cash(<<-1, 1>>)>>,
            <<<<1>>, Cash(<<5>>)>>,
            <<<<0, 1>>, Cash(<<-1, 2>>)>>,
            <<<<0, 1>>, Cash(<<-2, 1>>)>>,
            <<<<0, 2>>, Cash(<<-2, 1>>)>>,
            <<<<0, 1, 2>>, Cash(<<-100, 150, -100>>)>>,
            <<<<0, 1, 2, 3>>, Cash(<<-100, 50, 50, 50>>)>>,
            <<<<0, 1>>, <<Sci(-1, 11), Sci(2, 21)>> >>,
            <<<<0, 1, 2>>, Cash(<<-100, 10>>)>>,
            <<<<0, 1>>, Cash(<<-100, 10, 110>>)>>,
            <<<<>>, Cash(<<0>>)>>,
            <<<<0>>, <<>> >>}

InitIrr ==
    /\ DateIdle /\ CmpIdle /\ PvIdle /\ SeriesIdle
    /\ \E st \in IrrStreams : times = st[1] /\ amounts = st[2]

NextIrr == \/ IrrCall
           \/ IrrBracketInit
           \/ IrrBracketStep
           \/ IrrBracketDone
           \/ IrrBisectStep
           \/ IrrBisectFail

SpecIrr == InitIrr /\ [][NextIrr]_vars

\* The positions of a call: the statement reached and the loop variable.
Positions ==
    {"call", "init", "bracket", "bisect", "done"} \X (0 .. MAX_ITERATIONS)

\* The call moves on from a position before its return or throw.
Advance ==
    /\ pc # "done"
    /\ \E p \in Positions : pc' = p[1] /\ it' = p[2]

\* A call runs on its caller's thread from its first statement to its return
\* or throw: while it has not ended it keeps taking steps.  Every step of
\* NextIrr moves <<pc, it>> and one is possible exactly when pc # "done", so
\* this is weak fairness of NextIrr, stated on the position alone.
SpecIrrFair == SpecIrr /\ WF_<<pc, it>>(Advance)

\* 1 + r is never 0 where a present value is taken: every quotient is a number.
QuotientsDefined ==
    f1.dn.sg # 0 /\ f2.dn.sg # 0 /\ f_mid.dn.sg # 0

(***************************************************************************)
(* dated.hpp: Dated<T>.  dates and elements are the two vectors, indexed    *)
(* from 0 in the code and from 1 here, so dates[t] of the code is           *)
(* ds[t + 1].  A member function either returns a value or throws.          *)
(***************************************************************************)
Return(v) == [thrown |-> "none", message |-> "", value |-> v]

Raise(kind, text) == [thrown |-> kind, message |-> text, value |-> 0]

empty(ds) == Len(ds) = 0

size(ds) == Len(ds)

date_at(ds, t) ==
    IF t < 0 \/ t >= size(ds)
    THEN Raise("OutOfRange", "index 't' out of range")
    ELSE Return(ds[t + 1])

\* The same with the test of t against size() left out of the condition.
element_atNoUpperCheck(ds, es, t) ==
    IF t < 0
    THEN Raise("OutOfRange", "index 't' out of range")
    ELSE Return(IF t + 1 \in DOMAIN es THEN es[t + 1] ELSE 0)

element_at(ds, es, t) ==
    IF t < 0 \/ t >= size(ds)
    THEN Raise("OutOfRange", "index 't' out of range")
    ELSE Return(es[t + 1])

\* std::lower_bound over [first, first + len) with operator<: the first
\* position whose date is not less than val, found by halving the range.
RECURSIVE lower_bound(_, _, _, _)
lower_bound(ds, first, len, val) ==
    IF len <= 0 THEN first
    ELSE LET half   == len \div 2
             middle == first + half
         IN  IF OpLt(ds[middle + 1], val)
             THEN lower_bound(ds, middle + 1, len - half - 1, val)
             ELSE lower_bound(ds, first, half, val)

\* std::binary_search(first_date(), last_date(), val).
binary_search(ds, val) ==
    LET i == lower_bound(ds, 0, Len(ds), val)
    IN  i # Len(ds) /\ ~OpLt(val, ds[i + 1])

contains(ds, dd) == binary_search(ds, dd)

\* The for loop of index_of_date: the first t with dates[t] == d, and 0
\* when the loop ends without one.
RECURSIVE FirstEqualFrom(_, _, _)
FirstEqualFrom(ds, dd, t) ==
    IF ~(t < size(ds)) THEN 0
    ELSE IF OpEq(ds[t + 1], dd) THEN t
    ELSE FirstEqualFrom(ds, dd, t + 1)

\* The same without the test of d.valid().
index_of_dateNoValid(ds, dd) ==
    IF ~contains(ds, dd)
    THEN Raise("InvalidArgument", "Date 'd' not present")
    ELSE Return(FirstEqualFrom(ds, dd, 0))

index_of_date(ds, dd) ==
    IF ~valid(dd)
    THEN Raise("InvalidArgument", "Date 'd' not valid")
    ELSE IF ~contains(ds, dd)
    THEN Raise("InvalidArgument", "Date 'd' not present")
    ELSE Return(FirstEqualFrom(ds, dd, 0))

\* T element_at(const Date&): an exception of index_of_date passes through.
element_at_date(ds, es, dd) ==
    IF ~contains(ds, dd)
    THEN Raise("InvalidArgument", "Date 'd' not pressent")
    ELSE LET at == index_of_date(ds, dd)
         IN  IF at.thrown # "none" THEN at ELSE Return(es[at.value + 1])

(***************************************************************************)
(* A Dated<int> object and the const member functions called on it.        *)
(* member is the last function called, arg its argument, and thrown,       *)
(* thrownWhat and ret what it threw or returned.  The series holds one     *)
(* payload per date; its dates are sorted ascending under operator< and    *)
(* unique, and may be dates that valid() rejects.                          *)
(***************************************************************************)
SeriesDates == {MkDate(0, 0, 0), MkDate(31, 12, 2019), MkDate(1, 1, 2020),
                MkDate(30, 4, 2020), MkDate(31, 4, 2020),
                MkDate(31, 8, 2020)}

Payloads == {100, 200}

IndexInputs == (0 - IndexMargin) .. (MaxSeriesLen + IndexMargin)

SortedUnique(ds) ==
    \A i \in 1 .. (Len(ds) - 1) : OpLt(ds[i], ds[i + 1])

SeriesInputs ==
    UNION { {<<ds, es>> : ds \in {q \in Tuples(SeriesDates, n) :
                                    SortedUnique(q)},
                          es \in Tuples(Payloads, n)} :
            n \in 0 .. MaxSeriesLen }

InitSeries ==
    /\ DateIdle /\ CmpIdle /\ PvIdle /\ NoStream
    /\ \E sr \in SeriesInputs : dates = sr[1] /\ elements = sr[2]
    /\ member = "none" /\ arg = 0
    /\ thrown = "none" /\ thrownWhat = "" /\ ret = 0

SeriesCalled(name, a, r) ==
    /\ member' = name /\ arg' = a
    /\ thrown' = r.thrown /\ thrownWhat' = r.message /\ ret' = r.value
    /\ UNCHANGED <<dates, elements>>
    /\ UNCHANGED dateVars /\ UNCHANGED cmpVars /\ UNCHANGED pvVars

Empty == SeriesCalled("empty", 0, Return(empty(dates)))

Size == SeriesCalled("size", 0, Return(size(dates)))

DateAt == \E t \in IndexInputs : SeriesCalled("date_at", t, date_at(dates, t))

ElementAt ==
    \E t \in IndexInputs :
        SeriesCalled("element_at", t, element_at(dates, elements, t))

ElementAtDate ==
    \E dd \in SeriesDates :
        SeriesCalled("element_at(date)", dd,
                     element_at_date(dates, elements, dd))

Contains ==
    \E dd \in SeriesDates :
        SeriesCalled("contains", dd, Return(contains(dates, dd)))

IndexOfDate ==
    \E dd \in SeriesDates :
        SeriesCalled("index_of_date", dd, index_of_date(dates, dd))

NextSeries == \/ Empty
              \/ Size
              \/ DateAt
              \/ ElementAt
              \/ ElementAtDate
              \/ Contains
              \/ IndexOfDate

SpecSeries == InitSeries /\ [][NextSeries]_vars

(***************************************************************************)
(* The calendar the Date type is documented to follow.                     *)
(***************************************************************************)
LeapRule(y) == y % 4 = 0 /\ (y % 100 # 0 \/ y % 400 = 0)

\* Month lengths of the fixed table: February has 28 days.
TableLength(m) ==
    IF m = 2 THEN 28 ELSE IF m \in {4, 6, 9, 11} THEN 30 ELSE 31

CalendarLength(m, y) ==
    IF m = 2 /\ LeapRule(y) THEN 29 ELSE TableLength(m)

CalendarValid(dt) ==
    /\ dt.year >= 0
    /\ dt.month >= 1 /\ dt.month <= 12
    /\ dt.day >= 1 /\ dt.day <= 31
    /\ dt.day <= CalendarLength(dt.month, dt.year)

Incs == {"pre++", "post++"}
Decs == {"pre--", "post--"}

\* C1: valid() returns true exactly for the dates of the calendar: year >= 0,
\* month in 1..12, day in 1..31 and day not beyond the length of the month
\* (28/29 for February, 30 for months 4, 6, 9 and 11, 31 otherwise).
C1_ValidIffCalendar ==
    op = "valid" => (res <=> CalendarValid(d))

\* C2: is_leap_year() returns true exactly when the year is divisible by 4
\* and (not divisible by 100 or divisible by 400).
C2_LeapYearRule ==
    op = "is_leap_year" => (res <=> LeapRule(d.year))

\* The day after dt by the fixed table.
TableNext(dt) ==
    IF dt.day + 1 > TableLength(dt.month)
    THEN IF dt.month = 12
         THEN MkDate(1, 1, dt.year + 1)
         ELSE MkDate(1, dt.month + 1, dt.year)
    ELSE MkDate(dt.day + 1, dt.month, dt.year)

\* C3: an increment of a valid Date yields the next calendar day: day 1 of
\* the next month (month 12 rolling into month 1 of the next year) when
\* day+1 exceeds the table length of the month, otherwise day+1.  After 28
\* February of a leap year, 29 February is taken as a next day as well.
C3_IncrementNextDay ==
    (op \in Incs /\ CalendarValid(prev)) =>
        \/ d = TableNext(prev)
        \/ /\ prev.month = 2 /\ prev.day = 28 /\ LeapRule(prev.year)
           /\ d = MkDate(29, 2, prev.year)

AtEndOfFebruary(dt) ==
    \/ (dt.month = 2 /\ dt.day >= 28)
    \/ (dt.month = 3 /\ dt.day = 1)

\* C4: for a valid Date away from the end of February, an increment followed
\* by a decrement, and a decrement followed by an increment, give back the
\* Date they started from.
C4_RoundTrip ==
    (/\ \/ (pop \in Incs /\ op \in Decs)
        \/ (pop \in Decs /\ op \in Incs)
     /\ CalendarValid(prev2)
     /\ ~AtEndOfFebruary(prev2)) => d = prev2

\* Last day of the month before month m, as operator-- is to set it.
LastDayBefore(dt) ==
    IF dt.month \in {1, 2, 4, 6, 8, 9, 11} THEN 31
    ELSE IF dt.month \in {5, 7, 10, 12} THEN 30
    ELSE IF is_leap_year(dt) THEN 29 ELSE 28

\* C5: a decrement of a Date with month in 1..12 lowers only day when
\* day > 1; when day = 1 it yields the last day of the previous month (29
\* for February when is_leap_year() holds, else the table length), and 31
\* December of year-1 when the month was 1.
C5_Decrement ==
    (op \in Decs /\ prev.month >= 1 /\ prev.month <= 12) =>
        /\ prev.day > 1 => d = MkDate(prev.day - 1, prev.month, prev.year)
        /\ prev.day = 1 =>
              d = IF prev.month = 1
                  THEN MkDate(31, 12, prev.year - 1)
                  ELSE MkDate(LastDayBefore(prev), prev.month - 1, prev.year)

C5_Witness ==
    /\ op = "post--"
    /\ prev.day = 1 /\ prev.month = 3 /\ is_leap_year(prev)
    /\ d = MkDate(29, 2, prev.year)

LexLess(a, b) ==
    \/ a.year < b.year
    \/ (a.year = b.year /\ a.month < b.month)
    \/ (a.year = b.year /\ a.month = b.month /\ a.day < b.day)

SameFields(a, b) == a.day = b.day /\ a.month = b.month /\ a.year = b.year

Chain == <<MkDate(1, 1, 2020), MkDate(2, 1, 2020),
           MkDate(1, 2, 2020), MkDate(1, 1, 2021)>>

\* C6: the comparison operators are the lexicographic total order on
\* (year, month, day): == is equality of the three fields, < and > are the
\* strict lexicographic order and its converse, exactly one of <, ==, >
\* holds, < is transitive, <= / >= / != are (< or ==) / (> or ==) / not ==,
\* and 1.1.2020 < 2.1.2020 < 1.2.2020 < 1.1.2021.
C6_TotalOrder ==
    /\ cmpOp = "==" => (cmpRes <=> SameFields(lhs, rhs))
    /\ cmpOp = "!=" => (cmpRes <=> ~SameFields(lhs, rhs))
    /\ cmpOp = "<"  => (cmpRes <=> LexLess(lhs, rhs))
    /\ cmpOp = ">"  => (cmpRes <=> LexLess(rhs, lhs))
    /\ cmpOp = "<=" => (cmpRes <=> (LexLess(lhs, rhs) \/ SameFields(lhs, rhs)))
    /\ cmpOp = ">=" => (cmpRes <=> (LexLess(rhs, lhs) \/ SameFields(lhs, rhs)))
    /\ Cardinality({x \in {"<", "==", ">"} :
                      \/ (x = "<"  /\ OpLt(lhs, rhs))
                      \/ (x = "==" /\ OpEq(lhs, rhs))
                      \/ (x = ">"  /\ OpGt(lhs, rhs))}) = 1
    /\ (cmpOp = "<" /\ cmpRes) =>
          \A c \in CmpDates : OpLt(rhs, c) => OpLt(lhs, c)
    /\ \A i \in 1 .. 3 :
          (cmpOp = "<" /\ lhs = Chain[i] /\ rhs = Chain[i + 1]) => cmpRes

C6_Witness ==
    /\ cmpOp = "<" /\ cmpRes
    /\ lhs = MkDate(2, 1, 2020) /\ rhs = MkDate(1, 2, 2020)

IsIrr == fn = "irr_discrete_cflow"

\* Sign changes between consecutive terms of a sequence of numbers.
SignChanges(q) ==
    Cardinality({k \in 1 .. Len(q) - 1 : signbit(q[k]) # signbit(q[k + 1])})

RECURSIVE RunningTotal(_, _)
RunningTotal(q, k) ==
    IF k = 1 THEN q[1] ELSE BigAdd(RunningTotal(q, k - 1), q[k])

Cumulative(q) == [k \in 1 .. Len(q) |-> RunningTotal(q, k)]

\* C7: unique_discrete_irr is false with no sign change between consecutive
\* amounts, true with exactly one, and with more than one it is true exactly
\* when the running totals change sign at most once between consecutive
\* terms.
C7_UniqueBySignChanges ==
    (fn = "unique_discrete_irr" /\ pc = "done") =>
        uniq = IF SignChanges(amounts) = 0 THEN FALSE
               ELSE IF SignChanges(amounts) = 1 THEN TRUE
               ELSE SignChanges(Cumulative(amounts)) <= 1

Bracketed == QuotSign(f1) * QuotSign(f2) < 0

\* C8: when the bracket search of irr_discrete_cflow ends without two
\* present values of opposite signs the call fails with DomainError; the
\* bisection is entered only with a sign-changing bracket.
C8_NoBracketIsDomainError ==
    (/\ IsIrr
     /\ Len(times) = Len(amounts)
     /\ pc \in {"bisect", "done"}
     /\ ~Bracketed) => (pc = "done" /\ outcome = "DomainError")

\* C9: irr_discrete_cflow fails with InvalidArgument exactly when the two
\* sequences differ in length, and then no present value has been evaluated
\* and no loop iteration has run.
C9_InvalidArgumentIffSizesDiffer ==
    IsIrr =>
        /\ (outcome = "InvalidArgument") <=> (Len(times) # Len(amounts))
        /\ Len(times) # Len(amounts) =>
              /\ pc = "done"
              /\ pvCalls = 0 /\ expansions = 0 /\ it = 0

C9_Witness ==
    /\ IsIrr /\ outcome = "InvalidArgument"
    /\ Len(times) = 2 /\ Len(amounts) = 3

IsMainStream ==
    /\ IsIrr
    /\ times = <<0, 1, 2>>
    /\ amounts = Cash(<<-100, 10, 110>>)

\* C10: for times 0, 1, 2 and amounts -100, 10, 110 the bracket is x1 = 0,
\* x2 = 0.2 with no expansion (f(0) > 0 > f(0.2)), the bisection starts from
\* x2, and the first midpoint, 0.1, is returned: it is within 1e-5 of 0.10
\* and its present value, 0, is within 1e-5 of zero.
C10_MainStreamRate ==
    IsMainStream =>
        /\ pc \in {"bracket", "bisect", "done"} =>
              /\ expansions = 0
              /\ DecSame(x1, Dec(0, 0)) /\ DecSame(x2, Dec(2, 1))
              /\ QuotSign(f1) > 0 /\ QuotSign(f2) < 0
        /\ pc = "bisect" =>
              /\ it = 0
              /\ DecSame(rtb, x2) /\ DecSame(dx, DecSub(x1, x2))
        /\ pc = "done" =>
              /\ outcome = "value"
              /\ it = 0
              /\ DecSame(x_mid, Dec(1, 1))
              /\ DecLess(DecAbs(DecSub(x_mid, Dec(10, 2))), ACCURACY)
              /\ QuotSign(pv_discrete_cflow(times, amounts, x_mid)) = 0
              /\ QuotAbsLessDec(pv_discrete_cflow(times, amounts, x_mid),
                                ACCURACY)

C10_Witness ==
    IsMainStream /\ pc = "done" /\ outcome = "value" /\ pvCalls = 4

\* C11: after date_at(i) or element_at(i) on a series of n dates, OutOfRange
\* was thrown exactly when i < 0 or i >= n (nothing else is ever thrown),
\* and for 0 <= i < n the date, respectively the payload, at position i was
\* returned; no step changes the series.
C11_InRange ==
    member \in {"date_at", "element_at"} =>
        /\ thrown \in {"none", "OutOfRange"}
        /\ (thrown = "OutOfRange") <=> (arg < 0 \/ arg >= Len(dates))
        /\ (0 <= arg /\ arg < Len(dates)) =>
              ret = IF member = "date_at" THEN dates[arg + 1]
                                          ELSE elements[arg + 1]

C11_IndexedAccess ==
    /\ []C11_InRange
    /\ [][dates' = dates /\ elements' = elements]_vars

C11_Witness ==
    /\ member = "element_at" /\ arg = 1 /\ Len(dates) = 2
    /\ elements = <<100, 200>>
    /\ thrown = "none" /\ ret = 200

Present(dd) == \E i \in 1 .. Len(dates) : dates[i] = dd

\* The first position, counted from 0, whose date is dd.
FirstPosition(dd) ==
    (CHOOSE i \in 1 .. Len(dates) :
        /\ dates[i] = dd
        /\ \A j \in 1 .. (i - 1) : dates[j] # dd) - 1

LookupFails == thrown = "InvalidArgument"

AbsentOrInvalidFails ==
    /\ ~Present(arg) => LookupFails
    /\ ~valid(arg) => LookupFails

IndexOfDateContract ==
    member = "index_of_date" =>
        IF ~valid(arg) \/ ~Present(arg)
        THEN LookupFails
        ELSE thrown = "none" /\ ret = FirstPosition(arg)

Converged ==
    QuotAbsLessDec(f_mid, ACCURACY) \/ DecLess(DecAbs(dx), ACCURACY)

\* In the bisection, it is the number of iterations that ran and did not
\* return; expansions is the number of bracket-search iterations run.
C13_Budget ==
    IsIrr =>
        /\ expansions <= MAX_ITERATIONS
        /\ it <= MAX_ITERATIONS
        /\ (pc \in {"init", "bracket"}) => outcome = "none"
        /\ pc = "bisect" =>
              /\ outcome = "none"
              /\ it > 0 => ~Converged
        /\ pc = "done" =>
              /\ outcome \in {"InvalidArgument", "DomainError", "value"}
              /\ outcome = "value" =>
                    /\ it < MAX_ITERATIONS
                    /\ Converged
                    /\ pvCalls = 3 + expansions + it + 1
              /\ what = "Solution not found" =>
                    /\ outcome = "DomainError"
                    /\ it = MAX_ITERATIONS
                    /\ ~Converged
              /\ (Len(times) = Len(amounts) /\ outcome # "value") =>
                    outcome = "DomainError"

\* C13: every call of irr_discrete_cflow ends, after at most 50 iterations
\* of the bracket search and at most 50 of the bisection, in InvalidArgument,
\* DomainError or a returned midpoint; a midpoint is returned only by a
\* bisection iteration whose |f(x_mid)| or halved |dx| is below 1e-5, no
\* earlier iteration met either test, and when none of the 50 does the call
\* ends in DomainError.
C13_TerminatesWithinBudget ==
    /\ []C13_Budget
    /\ [][<<pc, it>>' # <<pc, it>>]_vars
    /\ <>(IsIrr /\ pc = "done")

C13_Witness ==
    /\ IsIrr /\ pc = "done"
    /\ outcome = "DomainError" /\ what = "Solution not found"
    /\ it = MAX_ITERATIONS /\ expansions > 0

MonthInRange(dt) == MinMonth <= dt.month /\ dt.month <= MaxMonth

\* C14: for a Date whose month is 1..12, the Date after ++ is greater under
\* operator< and the Date after -- is smaller; two increments in a row visit
\* three dates in strictly increasing order, none of them twice.
C14_StrictlyMonotone ==
    /\ (op \in Incs /\ MonthInRange(prev)) =>
          /\ OpLt(prev, d)
          /\ ~OpLt(d, prev) /\ ~OpEq(d, prev)
    /\ (op \in Decs /\ MonthInRange(prev)) =>
          /\ OpLt(d, prev)
          /\ ~OpLt(prev, d) /\ ~OpEq(d, prev)
    /\ (op \in Incs /\ pop \in Incs /\ MonthInRange(prev2)) =>
          /\ OpLt(prev2, prev) /\ OpLt(prev, d) /\ OpLt(prev2, d)
          /\ d # prev2 /\ d # prev /\ prev # prev2

C14_Witness ==
    /\ op \in Incs /\ pop \in Incs
    /\ prev2 = MkDate(31, 12, 1)
    /\ prev = MkDate(1, 1, 2)
    /\ d = MkDate(2, 1, 2)

=============================================================================
